---- MODULE Spec2Model ----
(***************************************************************************)
(* Model of json-extractor-server.js: the extractJson function, the        *)
(* POST /extract and GET /extract handlers that call it, and the clients   *)
(* that compose the texts sent to them.                                    *)
(*                                                                         *)
(* A JavaScript string is a sequence of one-character strings.  A          *)
(* JavaScript value is a record tagged by its type:                        *)
(*   [t |-> "undefined"], [t |-> "null"], [t |-> "bool", v |-> b],         *)
(*   [t |-> "num", v |-> n], [t |-> "str", v |-> chars],                   *)
(*   [t |-> "arr", v |-> <<values>>],                                      *)
(*   [t |-> "obj", v |-> << <<key, value>>, ... >>]                        *)
(* An object keeps its properties in insertion order, as JavaScript does   *)
(* for keys that are not array indices; no key of the modelled inputs is   *)
(* an array index.                                                         *)
(***************************************************************************)
EXTENDS Integers, Sequences, FiniteSets, TLC

VARIABLES sent, req, call, res

vars == <<sent, req, call, res>>

----------------------------------------------------------------------------
(* JavaScript values *)

Undefined == [t |-> "undefined"]

Null == [t |-> "null"]

Bool(b) == [t |-> "bool", v |-> b]

Num(n) == [t |-> "num", v |-> n]

Str(s) == [t |-> "str", v |-> s]

Arr(a) == [t |-> "arr", v |-> a]

Obj(ps) == [t |-> "obj", v |-> ps]

IsString(x) == x.t = "str"

IsObject(x) == x.t = "obj"

\* Truthy with an empty object or array taken for false.
TruthyNonEmpty(x) ==
  CASE x.t = "undefined" -> FALSE
    [] x.t = "null" -> FALSE
    [] x.t = "bool" -> x.v
    [] x.t = "num" -> x.v # 0
    [] OTHER -> Len(x.v) > 0

\* ToBoolean: what `if (x)`, `!x` and `a && b` test.
Truthy(x) ==
  CASE x.t = "undefined" -> FALSE
    [] x.t = "null" -> FALSE
    [] x.t = "bool" -> x.v
    [] x.t = "num" -> x.v # 0
    [] x.t = "str" -> Len(x.v) > 0
    [] OTHER -> TRUE

\* x.name: the property's value, undefined when x has no such own property.
RECURSIVE Lookup(_, _, _)
Lookup(ps, key, i) ==
  IF i > Len(ps) THEN Undefined
  ELSE IF ps[i][1] = key THEN ps[i][2]
  ELSE Lookup(ps, key, i + 1)

GetProp(x, key) == IF IsObject(x) THEN Lookup(x.v, key, 1) ELSE Undefined

\* Object.values(x)[0]
FirstValue(x) == IF Len(x.v) = 0 THEN Undefined ELSE x.v[1][2]

----------------------------------------------------------------------------
(* Characters *)

Digits == <<"0", "1", "2", "3", "4", "5", "6", "7", "8", "9">>

DigitChars == {Digits[i] : i \in 1..10}

DigitValue(c) == (CHOOSE i \in 1..10 : Digits[i] = c) - 1

\* The whitespace of the JSON grammar; on the modelled alphabet the regular
\* expression class \s matches the same characters.
IsWs(c) == c \in {" ", "\n", "\t", "\r"}

\* The grave accent U+0060, which a TLA+ string literal cannot hold, is the
\* character written "GRAVE".
Backtick == "GRAVE"

Backticks == <<Backtick, Backtick, Backtick>>

JsonTag == <<"j", "s", "o", "n">>

\* s has the characters of w at position i.
HasAt(s, i, w) ==
  /\ i >= 1
  /\ i + Len(w) - 1 <= Len(s)
  /\ \A k \in 1..Len(w) : s[i + k - 1] = w[k]

\* The first position at or after i that holds no whitespace.
RECURSIVE SkipWs(_, _)
SkipWs(s, i) ==
  IF i <= Len(s) /\ IsWs(s[i]) THEN SkipWs(s, i + 1) ELSE i

----------------------------------------------------------------------------
(* JSON.parse.  A parse step answers [ok, val, pos]: whether it succeeded, *)
(* the value read and the position after it.                               *)

Fail == [ok |-> FALSE, val |-> Undefined, pos |-> 0]

Ok(v, p) == [ok |-> TRUE, val |-> v, pos |-> p]

\* The character an escape \c stands for, "" when \c is no escape of the
\* modelled alphabet (which has no \b, \f or \u escape).
Unescape(c) ==
  CASE c = "\"" -> "\""
    [] c = "\\" -> "\\"
    [] c = "/" -> "/"
    [] c = "n" -> "\n"
    [] c = "t" -> "\t"
    [] c = "r" -> "\r"
    [] OTHER -> ""

\* The characters of a string literal from position i (after the opening
\* quote) up to its closing quote.
RECURSIVE ParseChars(_, _, _)
ParseChars(s, i, acc) ==
  IF i > Len(s) THEN Fail
  ELSE IF s[i] = "\"" THEN Ok(Str(acc), i + 1)
  ELSE IF s[i] = "\\" THEN
    IF i + 1 > Len(s) \/ Unescape(s[i + 1]) = "" THEN Fail
    ELSE ParseChars(s, i + 2, Append(acc, Unescape(s[i + 1])))
  ELSE IF s[i] \in {"\n", "\t", "\r"} THEN Fail
  ELSE ParseChars(s, i + 1, Append(acc, s[i]))

ParseString(s, i) ==
  IF i <= Len(s) /\ s[i] = "\"" THEN ParseChars(s, i + 1, <<>>) ELSE Fail

RECURSIVE ParseDigits(_, _, _)
ParseDigits(s, i, n) ==
  IF i <= Len(s) /\ s[i] \in DigitChars
  THEN ParseDigits(s, i + 1, 10 * n + DigitValue(s[i]))
  ELSE Ok(Num(n), i)

\* An integer: an optional minus, then 0 or a digit string with no leading 0.
\* No number of the modelled texts has a fraction or an exponent.
ParseNumber(s, i) ==
  LET neg == i <= Len(s) /\ s[i] = "-"
      j == IF neg THEN i + 1 ELSE i
  IN IF j > Len(s) \/ s[j] \notin DigitChars THEN Fail
     ELSE LET r == IF s[j] = "0" THEN Ok(Num(0), j + 1) ELSE ParseDigits(s, j, 0)
          IN IF neg THEN Ok(Num(0 - r.val.v), r.pos) ELSE r

ParseLiteral(s, i) ==
  IF HasAt(s, i, <<"t", "r", "u", "e">>) THEN Ok(Bool(TRUE), i + 4)
  ELSE IF HasAt(s, i, <<"f", "a", "l", "s", "e">>) THEN Ok(Bool(FALSE), i + 5)
  ELSE IF HasAt(s, i, <<"n", "u", "l", "l">>) THEN Ok(Null, i + 4)
  ELSE Fail

\* obj[key] = val on the property list ps: an existing key keeps its place.
SetProp(ps, key, val) ==
  IF \E k \in 1..Len(ps) : ps[k][1] = key
  THEN [k \in 1..Len(ps) |-> IF ps[k][1] = key THEN <<key, val>> ELSE ps[k]]
  ELSE Append(ps, <<key, val>>)

RECURSIVE ParseValue(_, _), ParseMembers(_, _, _), ParseElements(_, _, _)
\* The members of an object from position i, which holds the first character
\* of a key; acc are the properties read so far.
ParseMembers(s, i, acc) ==
  LET k == ParseString(s, i)
  IN IF ~k.ok THEN Fail
     ELSE LET c == SkipWs(s, k.pos)
          IN IF c > Len(s) \/ s[c] # ":" THEN Fail
             ELSE LET v == ParseValue(s, SkipWs(s, c + 1))
                  IN IF ~v.ok THEN Fail
                     ELSE LET e == SkipWs(s, v.pos)
                              ps == SetProp(acc, k.val.v, v.val)
                          IN IF e > Len(s) THEN Fail
                             ELSE IF s[e] = "}" THEN Ok(Obj(ps), e + 1)
                             ELSE IF s[e] = "," THEN ParseMembers(s, SkipWs(s, e + 1), ps)
                             ELSE Fail

\* The elements of an array from position i, which holds the first character
\* of an element.
ParseElements(s, i, acc) ==
  LET v == ParseValue(s, i)
  IN IF ~v.ok THEN Fail
     ELSE LET e == SkipWs(s, v.pos)
              a == Append(acc, v.val)
          IN IF e > Len(s) THEN Fail
             ELSE IF s[e] = "]" THEN Ok(Arr(a), e + 1)
             ELSE IF s[e] = "," THEN ParseElements(s, SkipWs(s, e + 1), a)
             ELSE Fail

\* A JSON value from position i, which holds no whitespace.
ParseValue(s, i) ==
  IF i > Len(s) THEN Fail
  ELSE IF s[i] = "{" THEN
    LET k == SkipWs(s, i + 1)
    IN IF k <= Len(s) /\ s[k] = "}" THEN Ok(Obj(<<>>), k + 1)
       ELSE ParseMembers(s, k, <<>>)
  ELSE IF s[i] = "[" THEN
    LET k == SkipWs(s, i + 1)
    IN IF k <= Len(s) /\ s[k] = "]" THEN Ok(Arr(<<>>), k + 1)
       ELSE ParseElements(s, k, <<>>)
  ELSE IF s[i] = "\"" THEN ParseString(s, i)
  ELSE IF s[i] = "-" \/ s[i] \in DigitChars THEN ParseNumber(s, i)
  ELSE ParseLiteral(s, i)

\* JSON.parse(s): [ok |-> TRUE, val |-> the value] when s is one JSON value
\* between optional whitespace, [ok |-> FALSE] when it throws a SyntaxError.
JSONParse(s) ==
  LET v == ParseValue(s, SkipWs(s, 1))
  IN IF v.ok /\ SkipWs(s, v.pos) = Len(s) + 1 THEN v ELSE Fail

----------------------------------------------------------------------------
(* JSON.stringify *)

RECURSIVE Concat(_)
Concat(ss) == IF Len(ss) = 0 THEN <<>> ELSE Head(ss) \o Concat(Tail(ss))

EscapeChar(c) ==
  CASE c = "\"" -> <<"\\", "\"">>
    [] c = "\\" -> <<"\\", "\\">>
    [] c = "\n" -> <<"\\", "n">>
    [] c = "\t" -> <<"\\", "t">>
    [] c = "\r" -> <<"\\", "r">>
    [] OTHER -> <<c>>

Quote(s) == <<"\"">> \o Concat([i \in 1..Len(s) |-> EscapeChar(s[i])]) \o <<"\"">>

RECURSIVE NatChars(_)
NatChars(n) ==
  IF n < 10 THEN <<Digits[n + 1]>> ELSE NatChars(n \div 10) \o <<Digits[(n % 10) + 1]>>

NumChars(n) == IF n < 0 THEN <<"-">> \o NatChars(0 - n) ELSE NatChars(n)

\* The parts joined by commas.
RECURSIVE Join(_)
Join(ss) ==
  IF Len(ss) = 0 THEN <<>>
  ELSE IF Len(ss) = 1 THEN Head(ss)
  ELSE Head(ss) \o <<",">> \o Join(Tail(ss))

RECURSIVE JSONStringify(_)
JSONStringify(x) ==
  CASE x.t = "null" -> <<"n", "u", "l", "l">>
    [] x.t = "bool" -> IF x.v THEN <<"t", "r", "u", "e">> ELSE <<"f", "a", "l", "s", "e">>
    [] x.t = "num" -> NumChars(x.v)
    [] x.t = "str" -> Quote(x.v)
    [] x.t = "arr" -> <<"[">> \o Join([i \in 1..Len(x.v) |-> JSONStringify(x.v[i])]) \o <<"]">>
    [] x.t = "obj" ->
         <<"{">>
         \o Join([i \in 1..Len(x.v) |->
                    Quote(x.v[i][1]) \o <<":">> \o JSONStringify(x.v[i][2])])
         \o <<"}">>

----------------------------------------------------------------------------
(* The two regular expressions of extractJson.  A match answers            *)
(* [found, text]: whether the expression matched and its capture group 1.  *)

NoMatch == [found |-> FALSE, text |-> <<>>]

Match(s, from, to) == [found |-> TRUE, text |-> SubSeq(s, from, to)]

\* LazyClose for an expression that ends at the captured group, with no
\* closing fence: the body ends at the first "}".
RECURSIVE FirstBrace(_, _)
FirstBrace(s, i) ==
  IF i > Len(s) THEN 0
  ELSE IF s[i] = "}" THEN i
  ELSE FirstBrace(s, i + 1)

\* \s*``` at position i: the closing fence after optional whitespace.  The
\* greedy \s* gives nothing back that helps: a fence starts with no
\* whitespace.
ClosesAt(s, i) == HasAt(s, SkipWs(s, i), Backticks)

\* [\s\S]*?\}\s*``` after an opening brace: the lazy body ends at the first
\* "}" at or after position i which the closing fence follows, 0 when there
\* is none.
RECURSIVE LazyClose(_, _)
LazyClose(s, i) ==
  IF i > Len(s) THEN 0
  ELSE IF s[i] = "}" /\ ClosesAt(s, i + 1) THEN i
  ELSE LazyClose(s, i + 1)

\* The capture from the brace at open to the brace at close.
Capture(s, open, close) == IF close = 0 THEN NoMatch ELSE Match(s, open, close)

\* (\{[\s\S]*?\})\s*``` at position open
BraceAt(s, open) ==
  IF open <= Len(s) /\ s[open] = "{"
  THEN Capture(s, open, LazyClose(s, open + 1))
  ELSE NoMatch

\* \s*(\{[\s\S]*?\})\s*``` at position i
BodyAt(s, i) == BraceAt(s, SkipWs(s, i))

\* OrUntagged for an expression whose tag is not optional.
TaggedOnly(s, i, tagged) == tagged

\* tagged, the match with (?:json)? taken, when there is one; the match
\* without it otherwise.
OrUntagged(s, i, tagged) == IF tagged.found THEN tagged ELSE BodyAt(s, i + 3)

\* The whole expression at position i: the opening fence, then (?:json)?
\* taken when it is there and given up when the rest then fails to match.
FencedAt(s, i) ==
  IF ~HasAt(s, i, Backticks) THEN NoMatch
  ELSE OrUntagged(s, i, IF HasAt(s, i + 3, JsonTag) THEN BodyAt(s, i + 7) ELSE NoMatch)

RECURSIVE FencedFrom(_, _)
\* m, the match at position i, when there is one; the leftmost match after
\* position i otherwise.
OrLater(s, i, m) == IF m.found THEN m ELSE FencedFrom(s, i + 1)

\* The match at the leftmost position at or after i that has one.
FencedFrom(s, i) ==
  IF i > Len(s) THEN NoMatch ELSE OrLater(s, i, FencedAt(s, i))

\* text.match(/```(?:json)?\s*(\{[\s\S]*?\})\s*```/)
JsonRegexMatch(s) == FencedFrom(s, 1)

\* The first position at or after i that holds c, 0 when there is none.
RECURSIVE IndexOf(_, _, _)
IndexOf(s, c, i) ==
  IF i > Len(s) THEN 0
  ELSE IF s[i] = c THEN i
  ELSE IndexOf(s, c, i + 1)

\* The last position at or before i that holds c, 0 when there is none.
RECURSIVE LastIndexOf(_, _, _)
LastIndexOf(s, c, i) ==
  IF i < 1 THEN 0
  ELSE IF s[i] = c THEN i
  ELSE LastIndexOf(s, c, i - 1)

\* The span from the brace at open to the brace at close, when both are
\* there in this order.
Span(s, open, close) ==
  IF open # 0 /\ close > open THEN Match(s, open, close) ELSE NoMatch

\* FallbackRegexMatch for a lazy body: from the leftmost "{" to the first
\* "}" after it.
FallbackLazy(s) == Span(s, IndexOf(s, "{", 1), IndexOf(s, "}", IndexOf(s, "{", 1) + 1))

\* FallbackRegexMatch from the last "{" of the text.
FallbackFromLast(s) == Span(s, LastIndexOf(s, "{", Len(s)), LastIndexOf(s, "}", Len(s)))

\* text.match(/(\{[\s\S]*\})/): from the leftmost "{" the greedy body runs
\* to the last "}" of the text.  When no "}" follows the leftmost "{", none
\* follows a later one.
FallbackRegexMatch(s) == Span(s, IndexOf(s, "{", 1), LastIndexOf(s, "}", Len(s)))

----------------------------------------------------------------------------
(* extractJson.  A call answers what it did:                               *)
(*   threw     whether an exception left the call                          *)
(*   ret       the value returned (undefined when it threw)                *)
(*   logged    whether console.error was called                            *)
(*   fenced    the match of jsonRegex                                      *)
(*   fallback  whether fallbackRegex was tried                             *)

Outcome(threw, ret, logged, fenced, fallback) ==
  [threw |-> threw, ret |-> ret, logged |-> logged,
   fenced |-> fenced, fallback |-> fallback]

\* Lines 37-45: the parse of the fallback candidate in its own try, whose
\* catch is empty; then return null.
FallbackParsed(match, parsedJson) ==
  IF parsedJson.ok
  THEN Outcome(FALSE, parsedJson.val, FALSE, match, TRUE)
  ELSE Outcome(FALSE, Null, FALSE, match, TRUE)

\* Lines 36-45
FallbackMatched(match, fallbackMatch) ==
  IF fallbackMatch.found /\ Len(fallbackMatch.text) > 0
  THEN FallbackParsed(match, JSONParse(fallbackMatch.text))
  ELSE Outcome(FALSE, Null, FALSE, match, TRUE)

\* Lines 27-29: the parse of the fenced candidate, which no inner try
\* protects: its SyntaxError leaves the body.
FencedParsed(match, parsedJson) ==
  IF parsedJson.ok
  THEN Outcome(FALSE, parsedJson.val, FALSE, match, FALSE)
  ELSE Outcome(TRUE, Undefined, FALSE, match, FALSE)

\* FencedMatched with the parse of the fenced candidate in a try of its own
\* that falls through to the fallback search.
FencedFallThrough(s, match) ==
  IF match.found /\ Len(match.text) > 0 /\ JSONParse(match.text).ok
  THEN FencedParsed(match, JSONParse(match.text))
  ELSE FallbackMatched(match, FallbackRegexMatch(s))

\* Lines 25-45
FencedMatched(s, match) ==
  IF match.found /\ Len(match.text) > 0
  THEN FencedParsed(match, JSONParse(match.text))
  ELSE FallbackMatched(match, FallbackRegexMatch(s))

\* Lines 21-45, the body of the outer try: an outcome with threw = TRUE is
\* an exception on its way to the catch of line 46.  text.match is no
\* function when text is no string: a TypeError.
ExtractBody(text) ==
  IF ~IsString(text)
  THEN Outcome(TRUE, Undefined, FALSE, NoMatch, FALSE)
  ELSE FencedMatched(text.v, JsonRegexMatch(text.v))

\* Caught without the catch: what the body threw leaves the call.
Uncaught(body) == body

\* Lines 46-49: the catch logs what the body threw and returns null.
Caught(body) ==
  IF body.threw
  THEN Outcome(FALSE, Null, TRUE, body.fenced, body.fallback)
  ELSE body

\* extractJson without its outer try.
ExtractUnprotected(text) == ExtractBody(text)

\* extractJson, lines 19-50
ExtractJson(text) == Caught(ExtractBody(text))

----------------------------------------------------------------------------
(* The handlers.  A response is [status, error, value, jsonString]: the    *)
(* HTTP status, the error text of an error body ("" when it has none),     *)
(* the extracted value of a success body and, for GET, its jsonString.     *)

Response(status, error, value, jsonString) ==
  [status |-> status, error |-> error, value |-> value, jsonString |-> jsonString]

ErrorResponse(status, error) == Response(status, error, Undefined, <<>>)

NotFound == ErrorResponse(404, "No valid JSON found in the input text")

NoCall ==
  [made |-> FALSE, arg |-> Undefined,
   out |-> Outcome(FALSE, Undefined, FALSE, NoMatch, FALSE)]

Called(arg, out) == [made |-> TRUE, arg |-> arg, out |-> out]

Handled(c, r) == [call |-> c, res |-> r]

TextKey == <<"t", "e", "x", "t">>

\* Object.values(body)[0] of an object or an array
FirstProp(body) ==
  IF Len(body.v) = 0 THEN Undefined
  ELSE IF body.t = "arr" THEN body.v[1]
  ELSE FirstValue(body)

\* Lines 66-71
FirstOrAll(body, firstProp) ==
  IF IsString(firstProp)
  THEN [ok |-> TRUE, text |-> firstProp]
  ELSE [ok |-> TRUE, text |-> Str(JSONStringify(body))]

\* Lines 58-74: the input text chosen from req.body; [ok |-> FALSE] is the
\* 400 response of line 73.
InputText(body) ==
  IF IsString(body) THEN [ok |-> TRUE, text |-> body]
  ELSE IF Truthy(body) /\ Truthy(GetProp(body, TextKey))
  THEN [ok |-> TRUE, text |-> GetProp(body, TextKey)]
  ELSE IF Truthy(body) /\ body.t \in {"obj", "arr"}
  THEN FirstOrAll(body, FirstProp(body))
  ELSE [ok |-> FALSE, text |-> Undefined]

\* Lines 82-98: the response made of the call's outcome; the catch of line
\* 91 answers 500 to what the call throws.
PostResult(inputText, out) ==
  Handled(Called(inputText, out),
          IF out.threw
          THEN ErrorResponse(500, "Internal server error")
          ELSE IF Truthy(out.ret)
          THEN Response(200, "", out.ret, <<>>)
          ELSE NotFound)

\* Lines 76-98
PostInput(input) ==
  IF ~input.ok
  THEN Handled(NoCall, ErrorResponse(400, "No valid input provided"))
  ELSE IF ~Truthy(input.text)
  THEN Handled(NoCall, ErrorResponse(400, "No input text provided"))
  ELSE PostResult(input.text, ExtractJson(input.text))

\* app.post("/extract"), lines 53-99
PostHandler(body) == PostInput(InputText(body))

\* Lines 113-124.  The handler has no try: what the call throws reaches the
\* framework, which answers 500.
GetResult(query, out) ==
  Handled(Called(query, out),
          IF out.threw
          THEN ErrorResponse(500, "Internal Server Error")
          ELSE IF Truthy(out.ret)
          THEN Response(200, "", out.ret, JSONStringify(out.ret))
          ELSE NotFound)

\* app.get("/extract"), lines 102-125
GetHandler(query) ==
  IF ~Truthy(query)
  THEN Handled(NoCall, ErrorResponse(400, "No input text provided in query parameter"))
  ELSE GetResult(query, ExtractJson(query))

----------------------------------------------------------------------------
(* The clients' inputs *)

\* The longest string value or key of a document a client embeds.
MaxStrLen == 4

\* The deepest nesting of objects in a document a client embeds.
MaxDepth == 2

StrChars == {"}", Backtick, " "}

Strings(n) == UNION {[1..k -> StrChars] : k \in 0..n}

KeyA == <<"a">>

KeyB == <<"b">>

Leaves ==
  {Str(s) : s \in Strings(MaxStrLen)}
  \cup {Num(1), Num(-20), Null, Bool(TRUE), Arr(<<>>), Arr(<<Num(1), Obj(<<>>)>>),
        Str(<<"\"", "\\", "\n", "{">>)}

\* The JSON objects nested at most d deep.
RECURSIVE DocsOfDepth(_)
DocsOfDepth(d) ==
  IF d = 0 THEN {Obj(<<>>)}
  ELSE LET inner == DocsOfDepth(d - 1)
       IN inner
          \cup {Obj(<< <<KeyA, v>> >>) : v \in Leaves \cup inner}
          \cup {Obj(<< <<KeyB, Num(1)>>, <<KeyA, v>> >>) : v \in inner}
          \cup {Obj(<< <<k, Num(1)>> >>) : k \in Strings(MaxStrLen)}

Docs == DocsOfDepth(MaxDepth)

ObjA == JSONStringify(Obj(<< <<KeyA, Num(1)>> >>))

ObjB == JSONStringify(Obj(<< <<KeyB, Num(2)>> >>))

\* {a:1}
Unquoted == <<"{", "a", ":", "1", "}">>

\* {"a":"}```"}
BraceFence == JSONStringify(Obj(<< <<KeyA, Str(<<"}">> \o Backticks)>> >>))

\* "```json\n" + JSON.stringify(J) + "\n```"
RoundTripText(J) ==
  Backticks \o JsonTag \o <<"\n">> \o JSONStringify(J) \o <<"\n">> \o Backticks

\* Prose without a fence around one fenced block that holds J: whether the
\* block is tagged, the whitespace ws inside the fences.
ProseBefore == {<<>>, <<"s", "e", "e", " ", "{", "x", "}", ":", "\n">>}

ProseAfter == {<<>>, <<" ">> \o ObjB \o <<" ", "}", ".">>}

Paddings == {<<>>, <<"\n">>}

FencedText(before, tagged, ws, J, after) ==
  before \o Backticks \o (IF tagged THEN JsonTag ELSE <<>>) \o ws
  \o JSONStringify(J) \o ws \o Backticks \o after

\* Free texts: a prefix, an opening, a body, a closing and a suffix, each
\* possibly empty.
Prefixes ==
  {<<>>, <<"x", " ">>, <<"{">>, <<"}", " ">>, ObjB \o <<" ">>, <<Backtick>>}

Openings ==
  {<<>>, Backticks, Backticks \o JsonTag, Backticks \o JsonTag \o <<"\n">>,
   Backticks \o <<" ">>, Backticks \o <<"j", "s">>}

Bodies ==
  {<<>>, <<"{", "}">>, ObjA, Unquoted, BraceFence,
   JSONStringify(Obj(<< <<KeyA, Obj(<< <<KeyB, Num(1)>> >>)>> >>)),
   Unquoted \o <<" ", "a", "n", "d", " ">> \o ObjB,
   <<"[", "1", "]">>, <<"1">>, SubSeq(ObjA, 1, Len(ObjA) - 1), ObjA \o <<"}">>,
   <<"{", "}", " ", "x">>}

Closings == {<<>>, Backticks, <<"\n">> \o Backticks, <<" ">>}

Suffixes == {<<>>, <<" ", "y">>, <<" ", "}">>, <<" ">> \o ObjB, Backticks}

Texts ==
  {p \o o \o b \o c \o x :
     p \in Prefixes, o \in Openings, b \in Bodies, c \in Closings, x \in Suffixes}

SampleTexts == {o \o b \o c : o \in Openings, b \in Bodies, c \in Closings}

\* req.body when it is no string: absent, or the object of a JSON body.
ObjectBodies ==
  {Undefined, Obj(<<>>)}
  \cup {Obj(<< <<TextKey, v>> >>) :
          v \in {Str(t) : t \in SampleTexts} \cup {Num(0), Num(5), Null, Obj(<<>>), Arr(<<>>)}}
  \cup {Obj(<< <<KeyA, v>> >>) :
          v \in {Str(<<>>), Str(ObjA), Str(Unquoted), Num(1), Obj(<<>>)}}
  \cup {Obj(<< <<KeyA, Num(1)>>, <<TextKey, Str(ObjB)>> >>)}

\* req.query.text: absent, a string, or the array of a repeated parameter.
Queries ==
  {Undefined}
  \cup {Str(t) : t \in SampleTexts}
  \cup {Arr(<<Str(ObjA)>>), Arr(<<Str(ObjA), Str(ObjB)>>)}

----------------------------------------------------------------------------
(* The server: one request is handled at a time, from its arrival to its  *)
(* response.  sent is what the client composed: [kind, doc], the document  *)
(* it embedded when it embedded one.                                        *)

NoRequest == [method |-> "none", input |-> Undefined]

Nothing == [kind |-> "none", doc |-> Undefined]

NoResponse == ErrorResponse(0, "")

Idle == req = NoRequest

Init ==
  /\ sent = Nothing
  /\ req = NoRequest
  /\ call = NoCall
  /\ res = NoResponse

\* The request is handled: what the client sent, the request, the call of
\* extractJson and the response.
Serve(composed, method, input, handled) ==
  /\ sent' = composed
  /\ req' = [method |-> method, input |-> input]
  /\ call' = handled.call
  /\ res' = handled.res

\* POST /extract with the given body
Post(body, composed) == Serve(composed, "POST", body, PostHandler(body))

PostRoundTrip ==
  /\ Idle
  /\ \E J \in Docs : Post(Str(RoundTripText(J)), [kind |-> "roundtrip", doc |-> J])

PostFenced ==
  /\ Idle
  /\ \E J \in Docs, before \in ProseBefore, after \in ProseAfter,
        tagged \in BOOLEAN, ws \in Paddings :
       Post(Str(FencedText(before, tagged, ws, J, after)),
            [kind |-> "fenced", doc |-> J])

PostText ==
  /\ Idle
  /\ \E t \in Texts : Post(Str(t), [kind |-> "text", doc |-> Undefined])

PostObject ==
  /\ Idle
  /\ \E b \in ObjectBodies : Post(b, [kind |-> "object", doc |-> Undefined])

\* GET /extract?text=...
GetExtract ==
  /\ Idle
  /\ \E q \in Queries :
       Serve([kind |-> "query", doc |-> Undefined], "GET", q, GetHandler(q))

\* The response is out; the server waits for the next request.
Finish ==
  /\ ~Idle
  /\ sent' = Nothing
  /\ req' = NoRequest
  /\ call' = NoCall
  /\ res' = NoResponse

Next ==
  \/ GetExtract
  \/ PostObject
  \/ PostText
  \/ PostRoundTrip
  \/ PostFenced
  \/ Finish

Spec == Init /\ [][Next]_vars

----------------------------------------------------------------------------
(* What the claims speak of *)

FencedFailed ==
  /\ call.made
  /\ call.out.fenced.found
  /\ ~JSONParse(call.out.fenced.text).ok

NoFencedCandidate ==
  /\ call.made
  /\ IsString(call.arg)
  /\ ~call.out.fenced.found

\* s has a "{" and a "}" after it.
HasBraceSpan(s) ==
  \E i \in 1..Len(s) : s[i] = "{" /\ \E j \in (i + 1)..Len(s) : s[j] = "}"

\* The span of s from its first "{" to its last "}".
GreedySpan(s) ==
  SubSeq(s,
         CHOOSE i \in 1..Len(s) : s[i] = "{" /\ \A k \in 1..(i - 1) : s[k] # "{",
         CHOOSE j \in 1..Len(s) : s[j] = "}" /\ \A k \in (j + 1)..Len(s) : s[k] # "}")

\* s has a "}" which optional whitespace and three backticks follow.
BraceThenFence(s) ==
  \E j \in 1..Len(s) :
    /\ s[j] = Backtick
    /\ j + 2 <= Len(s)
    /\ s[j + 1] = Backtick
    /\ s[j + 2] = Backtick
    /\ \E i \in 1..(j - 1) : s[i] = "}" /\ \A k \in (i + 1)..(j - 1) : IsWs(s[k])

----------------------------------------------------------------------------
(* The claims *)

\* C1 as stated: whenever the fenced search finds a candidate that is not
\* valid JSON, the call of extractJson raises to its caller.
C1_FencedFailureRaises == FencedFailed => call.out.threw

\* C1 as amended: whenever the fenced search finds a candidate that is not
\* valid JSON, extractJson catches the parse error itself, logs it and
\* returns null, the absence signal; it raises nothing, returns no value and
\* does not try the unfenced search.
C1_FencedFailureReturnsNull ==
  FencedFailed =>
    /\ ~call.out.threw
    /\ call.out.ret = Null
    /\ call.out.logged
    /\ ~call.out.fallback

C1_Witness ==
  /\ FencedFailed
  /\ call.out.fenced.text = Unquoted
  /\ call.out.ret = Null

\* C2 as stated: a POST /extract whose text holds a fenced candidate that
\* fails to parse is answered 500 with a message, never 404.
C2_FencedFailureIs500 ==
  (req.method = "POST" /\ FencedFailed) => (res.status = 500 /\ res.error # "")

\* C2 as amended: a POST /extract whose text holds a fenced candidate that
\* fails to parse is answered with the 404 "not found" response, never with
\* 500: at the HTTP boundary it is the same answer as absence.
C2_FencedFailureIs404 ==
  (req.method = "POST" /\ FencedFailed) => res = NotFound

C2_Witness ==
  /\ req.method = "POST"
  /\ FencedFailed
  /\ res.status = 404

\* C3 as stated: for a text of prose around a single fenced block, tagged
\* json or not, that holds the JSON object J, extractJson returns J.
C3_FencedBlockExtracted == sent.kind = "fenced" => call.out.ret = sent.doc

\* C3 as amended: for a text of prose around a single fenced block, tagged
\* json or not, that holds the JSON object J, extractJson returns J provided
\* the text of J has no "}" followed by optional whitespace and three
\* backticks.
C3_FencedBlockWithoutInnerFence ==
  (sent.kind = "fenced" /\ ~BraceThenFence(JSONStringify(sent.doc)))
    => call.out.ret = sent.doc

C3_Witness ==
  /\ sent.kind = "fenced"
  /\ sent.doc = Obj(<< <<KeyA, Obj(<< <<KeyA, Str(<<"}">>)>> >>)>> >>)
  /\ HasAt(req.input.v, 1, <<"s", "e", "e">>)
  /\ ~HasAt(req.input.v, 13, JsonTag)
  /\ call.out.ret = sent.doc

\* C4 as stated: for every JSON object J, extractJson of "```json\n" +
\* JSON.stringify(J) + "\n```" returns J.
C4_RoundTrip == sent.kind = "roundtrip" => call.out.ret = sent.doc

\* C4 as amended: for every JSON object J whose JSON.stringify text has no
\* "}" followed by optional whitespace and three backticks, nested objects
\* and string values that hold "}" and backticks otherwise included,
\* extractJson of "```json\n" + JSON.stringify(J) + "\n```" returns J.
C4_RoundTripWithoutInnerFence ==
  (sent.kind = "roundtrip" /\ ~BraceThenFence(JSONStringify(sent.doc)))
    => call.out.ret = sent.doc

C4_Witness ==
  /\ sent.kind = "roundtrip"
  /\ sent.doc = Obj(<< <<KeyB, Num(1)>>,
                       <<KeyA, Obj(<< <<KeyA, Str(<<Backtick, "}", Backtick>>)>> >>)>> >>)
  /\ call.out.ret = sent.doc

\* C5: when the fenced search finds no candidate, extractJson raises
\* nothing, and it returns null when the text has no span from a "{" to a
\* later "}" and when the span from its first "{" to its last "}" is not
\* valid JSON.
C5_FallbackNeverRaises ==
  NoFencedCandidate =>
    /\ ~call.out.threw
    /\ ~HasBraceSpan(call.arg.v) => call.out.ret = Null
    /\ (HasBraceSpan(call.arg.v) /\ ~JSONParse(GreedySpan(call.arg.v)).ok)
         => call.out.ret = Null

C5_Witness ==
  /\ NoFencedCandidate
  /\ call.arg.v = Unquoted \o <<" ", "a", "n", "d", " ">> \o ObjB
  /\ call.out.ret = Null

\* C6: when the fenced search finds no candidate and the span from the
\* first "{" to the last "}" of the text is valid JSON, extractJson returns
\* the parse of that span.
C6_GreedySpanParsed ==
  (NoFencedCandidate /\ HasBraceSpan(call.arg.v)
     /\ JSONParse(GreedySpan(call.arg.v)).ok)
    => call.out.ret = JSONParse(GreedySpan(call.arg.v)).val

C6_Witness ==
  /\ NoFencedCandidate
  /\ call.arg.v = <<"x", " ">> \o ObjA \o <<" ", "y">>
  /\ call.out.ret = Obj(<< <<KeyA, Num(1)>> >>)

\* C7: the handlers call extractJson only with a string of length at least
\* 1; any other request is answered 400 before the call.
C7_OnlyNonEmptyStrings ==
  call.made => (IsString(call.arg) /\ Len(call.arg.v) >= 1)

\* C9: the unfenced search is tried only when the fenced search matched
\* nothing, and when the fenced search matches, the fenced candidate alone
\* decides the outcome: its parse, or null when its parse fails.
C9_FencedDecidesAlone ==
  call.made =>
    /\ call.out.fallback => ~call.out.fenced.found
    /\ call.out.fenced.found =>
         call.out.ret = IF JSONParse(call.out.fenced.text).ok
                        THEN JSONParse(call.out.fenced.text).val
                        ELSE Null

C9_Witness ==
  /\ FencedFailed
  /\ HasBraceSpan(call.arg.v)
  /\ JSONParse(GreedySpan(call.arg.v)).ok
  /\ call.out.ret = Null

\* C10: every value extractJson returns is null or a JSON object, and POST
\* /extract answers 200 with the value exactly when it is not null, the
\* empty object included, and 404 exactly when it is null.
C10_ObjectOrNull ==
  call.made =>
    /\ call.out.ret.t \in {"null", "obj"}
    /\ req.method = "POST" =>
         /\ (res.status = 200 /\ res.value = call.out.ret) <=> call.out.ret # Null
         /\ res = NotFound <=> call.out.ret = Null

C10_Witness ==
  /\ req.method = "POST"
  /\ call.made
  /\ call.out.ret = Obj(<<>>)
  /\ res.status = 200
  /\ res.value = Obj(<<>>)

====
